---- MODULE Spec2Model ----
(***************************************************************************)
(* A model of the writers of src/src/easy/writer.rs.                       *)
(*                                                                         *)
(*   SimpleWriter  one output file: deferred header, packets, trailer.     *)
(*   SplitWriter   the rotation policy over a sequence of SimpleWriters.   *)
(*                                                                         *)
(* Two specifications share the module.  SimpleSpec drives one             *)
(* SimpleWriter through write_bytes / write_trailer / close / drop.  Spec  *)
(* drives one SplitWriter through write_bytes / close while time passes.   *)
(* The mux engine and the file system are the environment: every call the  *)
(* code makes into them that can fail is an input of the action that makes *)
(* it.  A Rust panic (unwrap on None/Err, index out of bounds) ends the    *)
(* run: the state keeps what the handler had done before it panicked.      *)
(***************************************************************************)
EXTENDS Integers, Sequences, FiniteSets, TLC

\* ------------------------------------------------------------------ bounds
\* Longest descriptor list handed to a writer.
MaxDescs == 2
\* Largest max_files offered to SplitWriter::new.
MaxFiles == 2
\* The positive value offered for max_size_bytes (0 is offered as well).
SizeLimit == 2
\* The positive value offered for max_size_time, in clock ticks.
TimeLimit == 2
\* The start_index offered.
StartIndex == 1
\* Largest growth of the file by one packet.
MaxPkt == 2
\* Cap on the number of rotations followed.
MaxRot == 2
\* Cap on the write_bytes calls made on a stand-alone SimpleWriter.
MaxCalls == 3
\* Streams of a source file read by a SimpleReader.
MaxStreams == 2
\* Packets held by a source file.
MaxSrc == 3
\* Constructor calls followed in the account of the engine handles.
MaxCtor == 2
\* Width in bits of a timestamp (an i64 in the program).
TsBits == 4

\* ------------------------------------------------------------- descriptors
\* A MediaDesc is an AudioDesc (codec id left at its default) or a VideoDesc
\* made by with_h264 / with_h265.
DescKinds == {"audio", "video"}

MediaLists == UNION {[1..n -> DescKinds] : n \in 1..MaxDescs}

\* The descriptor lists offered to SplitWriter::new: video only, audio
\* only, and the list of examples/split-writer.rs, audio then video.
SplitMediaLists == {<<"video">>, <<"audio">>, <<"audio", "video">>}

\* AVCodecID::has_gop: H264 and HEVC carry a GOP structure, the default
\* codec id of an AudioDesc does not.
has_gop(desc) == desc = "video"

\* The match of SimpleWriter::new: codec ids H264 | HEVC.
IsVideoCodec(desc) == desc = "video"

\* Option<T>: <<>> is None, <<x>> is Some(x).
None == <<>>
Some(x) == <<x>>

\* ------------------------------------------------------------ SimpleWriter
\* The streams vector built by SimpleWriter::new: one Stream per descriptor
\* whose codec is H264 or HEVC, in descriptor order; every other descriptor
\* is skipped.  Each entry is the (0-based) position of its descriptor.
RECURSIVE StreamsOf(_, _)
StreamsOf(descs, k) ==
    IF k > Len(descs) THEN <<>>
    ELSE (IF IsVideoCodec(descs[k]) THEN <<k - 1>> ELSE <<>>)
         \o StreamsOf(descs, k + 1)

\* SimpleWriter::new on success.  index names the file (the fragment index,
\* 0 for a stand-alone writer).  hdr and trl count the header and trailer
\* writes the engine has completed; late: a packet has been handed to the
\* engine after the trailer.
SimpleWriter_new(index, descs) ==
    [index |-> index,
     streams |-> StreamsOf(descs, 1),
     header_writed |-> FALSE,
     trailer_writed |-> FALSE,
     size |-> 0,
     hdr |-> 0,
     trl |-> 0,
     late |-> FALSE]

\* SimpleWriter::write_bytes.  hdrOk: avformat_write_header succeeds;
\* wrOk: the packet is built and av_interleaved_write_frame succeeds;
\* n: the growth of the file.  The result is the writer afterwards and
\* "ok" | "err" | "panic" (streams.get(stream_index).unwrap()).
SimpleWriter_write_bytes(w, stream_index, n, hdrOk, wrOk) ==
    LET w1 == IF ~w.header_writed
              THEN [w EXCEPT !.header_writed = TRUE, !.hdr = @ + 1]
              ELSE w
    IN  IF ~w.header_writed /\ ~hdrOk THEN [w |-> w, res |-> "err"]
        ELSE IF stream_index >= Len(w.streams) THEN [w |-> w1, res |-> "panic"]
        ELSE IF ~wrOk THEN [w |-> w1, res |-> "err"]
        ELSE [w |-> [w1 EXCEPT !.size = @ + n,
                               !.late = @ \/ w1.trailer_writed],
              res |-> "ok"]

\* Mutant: the trailer_writed guard is dropped.
SimpleWriter_write_trailer_unguarded(w) ==
    IF w.header_writed
    THEN [w EXCEPT !.trailer_writed = TRUE, !.trl = @ + 1]
    ELSE w

\* SimpleWriter::write_trailer: av_write_trailer's status is ignored, so the
\* call always returns Ok.
SimpleWriter_write_trailer(w) ==
    IF w.header_writed /\ ~w.trailer_writed
    THEN [w EXCEPT !.trailer_writed = TRUE, !.trl = @ + 1]
    ELSE w

\* SimpleWriter::close: write_trailer().unwrap(), then a flush.
SimpleWriter_close(w) == SimpleWriter_write_trailer(w)

\* Drop for SimpleWriter: close(); the fields (the engine context) are
\* released after it.
SimpleWriter_drop(w) == SimpleWriter_close(w)

\* ------------------------------------------------------------------- state
VARIABLES
    \* The fields of SplitWriter.  before_split / after_split: is the
    \* callback configured.  max_overhead is held as the integer the code
    \* derives from it, (max_overhead * 100.0) as u64.  elapsed stands for
    \* start_time.elapsed(), in clock ticks.
    medias, before_split, after_split, max_files, max_size_bytes,
    max_size_time, max_overhead, split_at_keyframe, start_index,
    current_index, elapsed, started, need_key_frame,
    split_wait_for_key_frame, writer,
    \* The environment: the indices of the fragment files on disk, the
    \* indices of the fragments whose engine context is open, and whether
    \* the thread has panicked.
    disk, open_ctx, panicked,
    \* History: the last call and what it did; the rotations completed; the
    \* files deleted; the indices of the fragments opened, in order; whether
    \* an open has failed.
    last, rotations, deleted, opened, open_failed,
    \* A stand-alone SimpleWriter: the descriptors given to new, the writer
    \* (as it was when dropped, once dropped), whether it has been dropped,
    \* the write_bytes calls made and those that returned Ok, and the last
    \* operation: its name, its outcome, the stream_index given (-1: none)
    \* and the position of the descriptor whose stream took the packet
    \* (-1: no packet written).
    sw_descs, sw, sw_dropped, sw_calls, sw_ok, sw_last,
    \* For each stream of that writer its input and output time bases, and
    \* the last packet the writer built with the pts and duration it was
    \* built from.
    sw_time_bases, sw_pkt,
    \* A SimpleReader: the number of streams of the source (one bitstream
    \* filter each), the packets the source still holds, whether each
    \* filter holds a packet it has not given out yet, the packets
    \* read_frame has returned, and the last read_frame call.
    rd_streams, rd_left, rd_pending, rd_returned, rd_last,
    \* The engine handles: how many of each kind have been acquired and
    \* released so far, the handles held by the wrapper the caller owns (a
    \* count per kind; none when all are 0), the last constructor or drop
    \* with its result, and the constructor calls made.
    h_acquired, h_released, h_owned, h_last, h_calls,
    \* An OpenOptions builder: the segmenting options set so far, and what
    \* open has returned ("none": not called yet).
    oo_options, oo_writer

splitVars == <<medias, before_split, after_split, max_files, max_size_bytes,
               max_size_time, max_overhead, split_at_keyframe, start_index,
               current_index, elapsed, started, need_key_frame,
               split_wait_for_key_frame, writer, disk, open_ctx, panicked,
               last, rotations, deleted, opened, open_failed>>

simpleVars == <<sw_descs, sw, sw_dropped, sw_calls, sw_ok, sw_last,
                sw_time_bases, sw_pkt>>

readerVars == <<rd_streams, rd_left, rd_pending, rd_returned, rd_last>>

handleVars == <<h_acquired, h_released, h_owned, h_last, h_calls>>

openVars == <<oo_options, oo_writer>>

vars == <<splitVars, simpleVars, readerVars, handleVars, openVars>>

\* What an action of one object leaves alone: the other objects.
nonSplitVars == <<simpleVars, readerVars, handleVars, openVars>>
nonSimpleVars == <<splitVars, readerVars, handleVars, openVars>>
nonReaderVars == <<splitVars, simpleVars, handleVars, openVars>>
nonHandleVars == <<splitVars, simpleVars, readerVars, openVars>>
nonOpenVars == <<splitVars, simpleVars, readerVars, handleVars>>

\* The options that never change after SplitWriter::new.
optionVars == <<medias, before_split, after_split, max_files, max_size_bytes,
                max_size_time, max_overhead, split_at_keyframe, start_index,
                need_key_frame>>

\* ------------------------------------------------------------- SplitWriter
\* The values of (max_overhead * 100.0) as u64 offered: 0.5, a margin of
\* half the limit.
OverheadChoices == {50}

\* Cap on a fragment's size: what one packet adds to a fragment that is
\* one byte short of the overflow limit (reached sooner only when
\* max_size_bytes = 0).
MaxSize == SizeLimit + (SizeLimit * 50) \div 100 - 1 + MaxPkt

\* Cap on the clock ticks counted since start_time: the overflow limit.
MaxElapsed == TimeLimit + (TimeLimit * 50) \div 100

\* The callbacks offered (before_split, after_split): both configured.
CallbackChoices == {<<TRUE, TRUE>>}

\* The loop of SplitWriter::new: some descriptor's codec has a GOP.
NeedKeyFrame(descs) == \E k \in 1..Len(descs) : has_gop(descs[k])

\* SplitWriter::stream_has_key_frame, for an index inside medias.
stream_has_key_frame(stream_index) == has_gop(medias[stream_index + 1])

\* max_size * (max_overhead * 100.0) as u64 / 100, in integers.
overhead_of(limit) == (limit * max_overhead) \div 100

\* SplitWriter::is_bytes_overrun.
is_bytes_overrun ==
    /\ writer # None
    /\ max_size_bytes > 0
    /\ writer[1].size >= max_size_bytes

\* SplitWriter::is_bytes_overflow.
is_bytes_overflow ==
    /\ writer # None
    /\ max_size_bytes > 0
    /\ writer[1].size >= max_size_bytes + overhead_of(max_size_bytes)

\* SplitWriter::is_time_overrun: no look at the writer.
is_time_overrun == max_size_time > 0 /\ elapsed >= max_size_time

\* SplitWriter::is_time_overflow: no look at the writer.
is_time_overflow ==
    max_size_time > 0 /\ elapsed >= max_size_time + overhead_of(max_size_time)

\* Mutant: the overflow escape is left out of the decision.
can_split_now_no_escape(is_key_frame, stream_index) ==
    IF split_wait_for_key_frame
    THEN IF stream_index >= Len(medias)
         THEN [res |-> "panic", split |-> FALSE, wait |-> TRUE]
         ELSE [res |-> "ok",
               split |-> stream_has_key_frame(stream_index) /\ is_key_frame,
               wait |-> FALSE]
    ELSE IF (is_bytes_overrun \/ is_time_overrun)
            /\ split_at_keyframe /\ need_key_frame
         THEN [res |-> "ok", split |-> FALSE, wait |-> TRUE]
         ELSE [res |-> "ok", split |-> is_bytes_overrun \/ is_time_overrun,
               wait |-> FALSE]

\* Mutant: an armed call splits on any packet of a keyframe-bearing stream.
can_split_now_any_packet(is_key_frame, stream_index) ==
    LET overrun == is_bytes_overrun \/ is_time_overrun
        overflow == is_bytes_overflow \/ is_time_overflow
    IN  IF split_wait_for_key_frame
        THEN IF stream_index >= Len(medias)
             THEN [res |-> "panic", split |-> FALSE, wait |-> TRUE]
             ELSE [res |-> "ok",
                   split |-> stream_has_key_frame(stream_index) \/ overflow,
                   wait |-> FALSE]
        ELSE IF overrun /\ split_at_keyframe /\ need_key_frame
             THEN [res |-> "ok", split |-> overflow, wait |-> TRUE]
             ELSE [res |-> "ok", split |-> overrun \/ overflow, wait |-> FALSE]

\* Mutant: an armed call that does not split stays armed.
can_split_now_stays_armed(is_key_frame, stream_index) ==
    LET overrun == is_bytes_overrun \/ is_time_overrun
        overflow == is_bytes_overflow \/ is_time_overflow
    IN  IF split_wait_for_key_frame
        THEN IF stream_index >= Len(medias)
             THEN [res |-> "panic", split |-> FALSE, wait |-> TRUE]
             ELSE [res |-> "ok",
                   split |-> (stream_has_key_frame(stream_index) /\ is_key_frame)
                             \/ overflow,
                   wait |-> ~(stream_has_key_frame(stream_index)
                              /\ is_key_frame)]
        ELSE IF overrun /\ split_at_keyframe /\ need_key_frame
             THEN [res |-> "ok", split |-> overflow, wait |-> TRUE]
             ELSE [res |-> "ok", split |-> overrun \/ overflow, wait |-> FALSE]

\* Mutant: an unarmed call at a threshold splits at once when its own packet
\* is a keyframe, instead of arming.
can_split_now_own_keyframe(is_key_frame, stream_index) ==
    LET overrun == is_bytes_overrun \/ is_time_overrun
        overflow == is_bytes_overflow \/ is_time_overflow
    IN  IF split_wait_for_key_frame
        THEN IF stream_index >= Len(medias)
             THEN [res |-> "panic", split |-> FALSE, wait |-> TRUE]
             ELSE [res |-> "ok",
                   split |-> (stream_has_key_frame(stream_index) /\ is_key_frame)
                             \/ overflow,
                   wait |-> FALSE]
        ELSE IF overrun /\ split_at_keyframe /\ need_key_frame
                /\ ~is_key_frame
             THEN [res |-> "ok", split |-> overflow, wait |-> TRUE]
             ELSE [res |-> "ok", split |-> overrun \/ overflow, wait |-> FALSE]

\* Mutant: the thresholds are not looked at, every call splits.
can_split_now_always(is_key_frame, stream_index) ==
    [res |-> "ok", split |-> TRUE, wait |-> FALSE]

\* SplitWriter::can_split_now: res is "panic" when medias[stream_index] is
\* out of bounds (evaluated first in the armed branch), split is the value
\* returned and wait the value left in split_wait_for_key_frame.
can_split_now(is_key_frame, stream_index) ==
    LET overrun == is_bytes_overrun \/ is_time_overrun
        overflow == is_bytes_overflow \/ is_time_overflow
    IN  IF split_wait_for_key_frame
        THEN IF stream_index >= Len(medias)
             THEN [res |-> "panic", split |-> FALSE, wait |-> TRUE]
             ELSE [res |-> "ok",
                   split |-> (stream_has_key_frame(stream_index) /\ is_key_frame)
                             \/ overflow,
                   wait |-> FALSE]
        ELSE IF overrun /\ split_at_keyframe /\ need_key_frame
             THEN [res |-> "ok", split |-> overflow, wait |-> TRUE]
             ELSE [res |-> "ok", split |-> overrun \/ overflow, wait |-> FALSE]

\* Mutant: the retention window is one file too long.
clean_files_keeps_one_more ==
    IF max_files > 0 /\ (current_index - start_index) >= max_files
    THEN LET index == current_index - max_files
         IN  IF index \in disk
             THEN [res |-> "ok", disk |-> disk \ {index},
                   events |-> << <<"remove_file", index>> >>]
             ELSE [res |-> "panic", disk |-> disk, events |-> <<>>]
    ELSE [res |-> "ok", disk |-> disk, events |-> <<>>]

\* Mutant: the newest file is deleted instead of the oldest.
clean_files_newest ==
    IF max_files > 0 /\ (current_index - start_index) >= max_files - 1
    THEN IF current_index \in disk
         THEN [res |-> "ok", disk |-> disk \ {current_index},
               events |-> << <<"remove_file", current_index>> >>]
         ELSE [res |-> "panic", disk |-> disk, events |-> <<>>]
    ELSE [res |-> "ok", disk |-> disk, events |-> <<>>]

\* SplitWriter::clean_files: std::fs::remove_file(..).unwrap() panics when
\* the file is not there.
clean_files ==
    IF max_files > 0 /\ (current_index - start_index) >= max_files - 1
    THEN LET index == current_index - (max_files - 1)
         IN  IF index >= start_index
             THEN IF index \in disk
                  THEN [res |-> "ok", disk |-> disk \ {index},
                        events |-> << <<"remove_file", index>> >>]
                  ELSE [res |-> "panic", disk |-> disk, events |-> <<>>]
             ELSE [res |-> "ok", disk |-> disk, events |-> <<>>]
    ELSE [res |-> "ok", disk |-> disk, events |-> <<>>]

\* Mutant: the engine context of the dropped writer is not released.
take_writer_leak ==
    IF writer = None
    THEN [open_ctx |-> open_ctx, events |-> <<>>]
    ELSE LET w == SimpleWriter_drop(writer[1])
         IN  [open_ctx |-> open_ctx,
              events |-> << <<"finalize", w.index, w.hdr, w.trl>> >>]

\* `let _ = self.writer.take()`: the writer, if any, is dropped on the spot:
\* Drop for SimpleWriter (close), then Drop for AVFormatContextOwned
\* (avio_close, avformat_free_context).  The event records the header and
\* trailer writes the file has had.
take_writer ==
    IF writer = None
    THEN [open_ctx |-> open_ctx, events |-> <<>>]
    ELSE LET w == SimpleWriter_drop(writer[1])
         IN  [open_ctx |-> open_ctx \ {w.index},
              events |-> << <<"finalize", w.index, w.hdr, w.trl>> >>]

\* Mutant: after_split is called before the index is incremented.
split_now_early_after ==
    LET tw == take_writer
        cf == clean_files
        before == IF before_split
                  THEN << <<"before_split", current_index>> >> ELSE <<>>
        after == IF after_split
                 THEN << <<"after_split", current_index>> >> ELSE <<>>
    IN  IF cf.res = "panic"
        THEN [res |-> "panic", index |-> current_index, disk |-> cf.disk,
              open_ctx |-> tw.open_ctx, events |-> before \o tw.events]
        ELSE [res |-> "ok", index |-> current_index + 1, disk |-> cf.disk,
              open_ctx |-> tw.open_ctx,
              events |-> before \o tw.events \o cf.events \o after
                         \o << <<"index", current_index + 1>> >>]

\* Mutant: the index advances by two.
split_now_skips ==
    LET tw == take_writer
        cf == clean_files
    IN  [res |-> cf.res, index |-> current_index + 2, disk |-> cf.disk,
         open_ctx |-> tw.open_ctx,
         events |-> tw.events \o cf.events
                    \o << <<"index", current_index + 2>> >>]

\* SplitWriter::split_now.  The writer is None afterwards in every case.
split_now ==
    LET tw == take_writer
        cf == clean_files
        before == IF before_split
                  THEN << <<"before_split", current_index>> >> ELSE <<>>
        after == IF after_split
                 THEN << <<"after_split", current_index + 1>> >> ELSE <<>>
    IN  IF cf.res = "panic"
        THEN [res |-> "panic", index |-> current_index, disk |-> cf.disk,
              open_ctx |-> tw.open_ctx, events |-> before \o tw.events]
        ELSE [res |-> "ok", index |-> current_index + 1, disk |-> cf.disk,
              open_ctx |-> tw.open_ctx,
              events |-> before \o tw.events \o cf.events
                         \o << <<"index", current_index + 1>> >> \o after]

\* What the claims call thresholds, stated on the live fragment: its size or
\* the time since its start instant has reached the limit (overrun) or the
\* limit plus the overhead margin (overflow).
FragmentOverrun ==
    /\ writer # None
    /\ \/ max_size_bytes > 0 /\ writer[1].size >= max_size_bytes
       \/ max_size_time > 0 /\ elapsed >= max_size_time

FragmentOverflow ==
    /\ writer # None
    /\ \/ /\ max_size_bytes > 0
          /\ writer[1].size >= max_size_bytes + (max_size_bytes * max_overhead) \div 100
       \/ /\ max_size_time > 0
          /\ elapsed >= max_size_time + (max_size_time * max_overhead) \div 100

\* The outcomes of opening a fragment in write_bytes (format_location, then
\* SimpleWriter::new):
\*   "ok"         the file is created and the writer built;
\*   "no_file"    AVFormatContextOwned::with_output fails (Err), no file;
\*   "dir_panic"  create_dir_all(parent).unwrap() panics.
OpenOutcomes == {"ok", "no_file", "dir_panic"}

\* The record kept of the last call: its arguments, what held when it was
\* made (armed, overrun, overflow), whether it completed a rotation, how it
\* ended ("ok" | "err" | "panic") and what it did, in order.
CallRecord(op, key, si, split, res, events) ==
    [op |-> op, is_key_frame |-> key, stream_index |-> si,
     armed |-> split_wait_for_key_frame,
     overrun |-> FragmentOverrun, overflow |-> FragmentOverflow,
     split |-> split, res |-> res, events |-> events]

NoCall == [op |-> "none", is_key_frame |-> FALSE, stream_index |-> 0,
           armed |-> FALSE, overrun |-> FALSE, overflow |-> FALSE,
           split |-> FALSE, res |-> "ok", events |-> <<>>]

\* `if self.writer.is_none()` in write_bytes.
NeedsOpen(w) == w = None

\* Step 3 of write_bytes: the packet is handed to the writer w2 (if any)
\* and the call's history is recorded.  after is the state steps 1 and 2
\* left: [res, w, index, disk, open_ctx, events, wait, split, opened,
\* open_failed].
Deliver(after, is_key_frame, stream_index, n, hdrOk, wrOk) ==
    LET writing == after.res = "ok" /\ after.w # None
    IN  \E wr \in {IF writing
                   THEN SimpleWriter_write_bytes(after.w[1], stream_index, n,
                                                 hdrOk, wrOk)
                   ELSE [w |-> 0, res |-> after.res]} :
        \* an input the call does not consult takes one value
        /\ ~(writing /\ ~after.w[1].header_writed) => hdrOk
        /\ ~(writing /\ stream_index < Len(after.w[1].streams)
                     /\ (after.w[1].header_writed \/ hdrOk)) => (wrOk /\ n = 1)
        /\ ~wrOk => n = 1
        /\ writing => wr.w.size <= MaxSize
        /\ writer' = IF writing THEN Some(wr.w) ELSE after.w
        /\ split_wait_for_key_frame' = after.wait
        /\ current_index' = after.index
        /\ disk' = after.disk
        /\ open_ctx' = after.open_ctx
        /\ elapsed' = IF after.opened THEN 0 ELSE elapsed
        /\ started' = (started \/ after.opened)
        /\ panicked' = (wr.res = "panic")
        /\ rotations' = IF after.split THEN rotations + 1 ELSE rotations
        /\ deleted' = deleted + Cardinality(disk \ after.disk)
        /\ opened' = IF after.opened THEN Append(opened, after.index)
                     ELSE opened
        /\ open_failed' = (open_failed \/ after.open_failed)
        /\ last' = CallRecord("write_bytes", is_key_frame, stream_index,
                              after.split, wr.res,
                              IF writing /\ wr.res = "ok"
                              THEN after.events \o << <<"write", wr.w.index>> >>
                              ELSE after.events)

\* Step 2 of write_bytes: with no writer, the fragment at the current index
\* is opened.  s is the state step 1 left: [res, w, index, disk, open_ctx,
\* events, wait, split].
OpenFragment(s, openR) ==
    LET opening == s.res = "ok" /\ NeedsOpen(s.w)
        ok == opening /\ openR = "ok"
    IN  [res |-> IF opening /\ openR = "dir_panic" THEN "panic"
                 ELSE IF opening /\ openR # "ok" THEN "err"
                 ELSE s.res,
         w |-> IF ok THEN Some(SimpleWriter_new(s.index, medias)) ELSE s.w,
         index |-> s.index,
         disk |-> IF ok THEN s.disk \cup {s.index} ELSE s.disk,
         open_ctx |-> IF ok THEN s.open_ctx \cup {s.index} ELSE s.open_ctx,
         events |-> IF ok
                    THEN s.events \o << <<"open", s.index, s.open_ctx>> >>
                    ELSE s.events,
         wait |-> s.wait,
         split |-> s.split,
         opened |-> ok,
         open_failed |-> opening /\ openR # "ok"]

\* Mutant: the rotation leaves the closed writer in place, and the packet
\* goes to it.
Rotate_keeps_writer(is_key_frame, stream_index) ==
    LET d == can_split_now(is_key_frame, stream_index)
    IN  IF d.res = "ok" /\ d.split
        THEN LET sn == split_now
             IN  [res |-> sn.res, w |-> writer, index |-> sn.index,
                  disk |-> sn.disk, open_ctx |-> sn.open_ctx,
                  events |-> sn.events, wait |-> d.wait,
                  split |-> sn.res = "ok"]
        ELSE [res |-> d.res, w |-> writer, index |-> current_index,
              disk |-> disk, open_ctx |-> open_ctx, events |-> <<>>,
              wait |-> d.wait, split |-> FALSE]

\* Step 1 of write_bytes: can_split_now, and split_now when it says so.
Rotate(is_key_frame, stream_index) ==
    LET d == can_split_now(is_key_frame, stream_index)
    IN  IF d.res = "ok" /\ d.split
        THEN LET sn == split_now
             IN  [res |-> sn.res, w |-> None, index |-> sn.index,
                  disk |-> sn.disk, open_ctx |-> sn.open_ctx,
                  events |-> sn.events, wait |-> d.wait,
                  split |-> sn.res = "ok"]
        ELSE [res |-> d.res, w |-> writer, index |-> current_index,
              disk |-> disk, open_ctx |-> open_ctx, events |-> <<>>,
              wait |-> d.wait, split |-> FALSE]

\* SplitWriter::write_bytes, the whole call:
\*   1. can_split_now, and split_now when it says so;
\*   2. with no writer, open the fragment at current_index;
\*   3. hand the packet to the writer.
\* A panic or an Err ends the call where it happens, keeping what was done.
WriteBytes(is_key_frame, stream_index, n, openR, hdrOk, wrOk) ==
    /\ ~panicked
    /\ rotations < MaxRot
    /\ stream_index \in 0..Len(medias)
    /\ \E s \in {Rotate(is_key_frame, stream_index)} :
        /\ ~(s.res = "ok" /\ NeedsOpen(s.w)) => openR = "ok"
        /\ \E after \in {OpenFragment(s, openR)} :
              Deliver(after, is_key_frame, stream_index, n, hdrOk, wrOk)
    /\ UNCHANGED optionVars
    /\ UNCHANGED nonSplitVars

\* The clock moves on between two calls.  Followed only while a time
\* threshold is set: nothing reads elapsed otherwise.
Tick ==
    /\ ~panicked
    /\ max_size_time > 0
    /\ elapsed < MaxElapsed
    /\ elapsed' = elapsed + 1
    /\ UNCHANGED <<writer, split_wait_for_key_frame, current_index, disk,
                   open_ctx, started, panicked, rotations, deleted, opened,
                   open_failed, last>>
    /\ UNCHANGED optionVars
    /\ UNCHANGED nonSplitVars

\* ------------------------------------------------------------ SimpleReader
\* Mutant: a filter gives its packet out and goes on holding it.
receive_packet_endless(pend, k) ==
    IF pend[k]
    THEN {[res |-> "ok", pend |-> pend],
          [res |-> "reason", pend |-> [pend EXCEPT ![k] = FALSE]],
          [res |-> "reason", pend |-> pend]}
    ELSE {[res |-> "again", pend |-> pend]}

\* AVBSFContextOwned::receive_packet on filter k.  pend[k]: the filter holds
\* a packet.  An empty filter answers Again; a filter that holds a packet
\* gives it out, or fails with a reason, the packet then lost or kept.
receive_packet(pend, k) ==
    IF pend[k]
    THEN {[res |-> "ok", pend |-> [pend EXCEPT ![k] = FALSE]],
          [res |-> "reason", pend |-> [pend EXCEPT ![k] = FALSE]],
          [res |-> "reason", pend |-> pend]}
    ELSE {[res |-> "again", pend |-> pend]}

\* AVBSFContextOwned::send_packet to filter k: a filter that still holds a
\* packet answers Again; an empty one takes the packet or fails with a
\* reason.
send_packet(pend, k) ==
    IF pend[k]
    THEN {[res |-> "again", pend |-> pend]}
    ELSE {[res |-> "ok", pend |-> [pend EXCEPT ![k] = TRUE]],
          [res |-> "reason", pend |-> pend]}

\* Mutant: the end of the source is also reported while packets are left.
read_frame_early_eof(left, n) ==
    {[res |-> "none", cause |-> "eof", stream |-> 0, left |-> left]}
    \cup {[res |-> "some", cause |-> "", stream |-> k, left |-> left - 1] :
            k \in {j \in 1..(n + 1) : left > 0}}

\* AVFormatContextOwned::read_frame on a source that holds left packets and
\* had n streams when it was opened: None at the end of the source and on
\* any error of av_read_frame, else the next packet, of one of the n
\* streams or of a stream the demuxer has added since (stream n + 1).
read_frame(left, n) ==
    IF left = 0
    THEN {[res |-> "none", cause |-> "eof", stream |-> 0, left |-> 0]}
    ELSE {[res |-> "none", cause |-> "read_error", stream |-> 0, left |-> left]}
         \cup {[res |-> "some", cause |-> "", stream |-> k, left |-> left - 1] :
                 k \in 1..(n + 1)}

\* Mutant: only the first filter is asked for a packet.
PollFilters_first_only(pend, k, seen) ==
    UNION {IF r.res = "ok"
           THEN {[pend |-> r.pend, got |-> 1, seen |-> seen]}
           ELSE {[pend |-> r.pend, got |-> 0,
                  seen |-> seen \/ r.res = "reason"]} :
           r \in receive_packet(pend, 1)}

\* The for loop of SimpleReader::read_frame from filter k on: the first
\* filter whose receive_packet is Ok ends the call (got = its number), every
\* Err is passed over.  seen: a receive has failed with a reason.
RECURSIVE PollFilters(_, _, _)
PollFilters(pend, k, seen) ==
    IF k > Len(pend) THEN {[pend |-> pend, got |-> 0, seen |-> seen]}
    ELSE UNION {IF r.res = "ok"
                THEN {[pend |-> r.pend, got |-> k, seen |-> seen]}
                ELSE PollFilters(r.pend, k + 1, seen \/ r.res = "reason") :
                r \in receive_packet(pend, k)}

\* How a read_frame call ended: res is "some" | "none" | "panic"; cause says
\* why it is None ("eof", "read_error", "send") or a panic ("index":
\* self.bsfs[stream_index] out of bounds); stream is the filter the packet
\* came from; seen: a receive or a send failed with a reason during the
\* call; after: the source was pulled after a receive had failed with a
\* reason; held: some filter holds a packet at the end.
ReadOutcome(res, cause, stream, left, pend, seen, after) ==
    [res |-> res, cause |-> cause, stream |-> stream, left |-> left,
     pend |-> pend, seen |-> seen, after |-> after,
     held |-> \E k \in 1..Len(pend) : pend[k]]

\* SimpleReader::read_frame: the outcomes of one call, over what the filters
\* and the source may answer.
RECURSIVE SimpleReader_read_frame(_, _, _, _)
SimpleReader_read_frame(left, pend, seen, after) ==
    UNION {
      IF p.got > 0
      THEN {ReadOutcome("some", "", p.got, left, p.pend, p.seen, after)}
      ELSE UNION {
        IF r.res = "none"
        THEN {ReadOutcome("none", r.cause, 0, r.left, p.pend, p.seen,
                          after)}
        ELSE IF r.stream > Len(pend)
        THEN {ReadOutcome("panic", "index", 0, r.left, p.pend, p.seen,
                          after \/ p.seen)}
        ELSE UNION {
          IF sd.res = "ok"
          THEN SimpleReader_read_frame(r.left, sd.pend, p.seen,
                                       after \/ p.seen)
          ELSE {ReadOutcome("none", "send", 0, r.left, sd.pend,
                            p.seen \/ sd.res = "reason", after \/ p.seen)} :
          sd \in send_packet(p.pend, r.stream)} :
        r \in read_frame(left, Len(pend))} :
      p \in PollFilters(pend, 1, seen)}

\* No read_frame call made yet.  prev: how the call before the last ended.
NoRead == [res |-> "new", cause |-> "", stream |-> 0, seen |-> FALSE,
           after |-> FALSE, held |-> FALSE, prev |-> "new"]

\* No SimpleReader in Spec and SimpleSpec.
ReaderIdle ==
    /\ rd_streams = 0
    /\ rd_left = 0
    /\ rd_pending = <<>>
    /\ rd_returned = 0
    /\ rd_last = NoRead

\* -------------------------------------------------------------- timestamps
\* i64::MIN and i64::MAX at the width of the model: the two sentinels.
IntMin == -(2 ^ (TsBits - 1))
IntMax == (2 ^ (TsBits - 1)) - 1
Timestamps == IntMin..IntMax

\* AVRational values offered as time bases: <<num, den>>.
TimeBaseChoices == {<<1, 1>>, <<1, 2>>, <<2, 3>>}

\* AVRounding::new().near_inf().pass_min_max(), and the rounding av_rescale_q
\* uses: the flags set.
NearInfPassMinMax == {"near_inf", "pass_min_max"}
NearInf == {"near_inf"}

\* Negation in the unsigned arithmetic of the engine.
WrapNeg(x) == IF x = IntMin THEN IntMin ELSE -x

\* av_rescale_rnd with the rounding towards zero: what the rescaling must
\* not be.
av_rescale_rnd_zero(a, b, c, rnd) ==
    LET pos(x) == LET q == (x * b) \div c
                  IN  IF q > IntMax THEN IntMin ELSE q
    IN  IF c <= 0 \/ b < 0 THEN IntMin
        ELSE IF "pass_min_max" \in rnd /\ a \in {IntMin, IntMax} THEN a
        ELSE IF a < 0
        THEN WrapNeg(pos(-(IF a > -IntMax THEN a ELSE -IntMax)))
        ELSE pos(a)

\* av_rescale_rnd of the engine, for the near_inf rounding: a * b / c, halves
\* away from zero; a sentinel is returned as it is when pass_min_max is
\* set; a result that does not fit is IntMin.
av_rescale_rnd(a, b, c, rnd) ==
    LET r == c \div 2
        pos(x) == LET q == (x * b + r) \div c
                  IN  IF q > IntMax THEN IntMin ELSE q
    IN  IF c <= 0 \/ b < 0 THEN IntMin
        ELSE IF "pass_min_max" \in rnd /\ a \in {IntMin, IntMax} THEN a
        ELSE IF a < 0
        THEN WrapNeg(pos(-(IF a > -IntMax THEN a ELSE -IntMax)))
        ELSE pos(a)

\* av_rescale_q_rnd: a rescaled from time base bq to time base cq.
av_rescale_q_rnd(a, bq, cq, rnd) ==
    av_rescale_rnd(a, bq[1] * cq[2], cq[1] * bq[2], rnd)

\* av_rescale_q: the same with the near_inf rounding alone.
av_rescale_q(a, bq, cq) == av_rescale_q_rnd(a, bq, cq, NearInf)

NoPkt == [built |-> FALSE, pts |-> 0, dts |-> 0, duration |-> 0,
          stream |-> -1, from_pts |-> 0, from_duration |-> 0]

\* The timestamps of the packet SimpleWriter::write_bytes builds for the
\* stream whose time bases are tb = <<in_time_base, out_time_base>>.
Packet(pts, duration, stream_index, tb) ==
    LET p == av_rescale_q_rnd(pts, tb[1], tb[2], NearInfPassMinMax)
    IN  [built |-> TRUE, pts |-> p, dts |-> p,
         duration |-> av_rescale_q(duration, tb[1], tb[2]),
         stream |-> stream_index, from_pts |-> pts,
         from_duration |-> duration]

\* ---------------------------------------------------------- engine handles
\* The kinds of engine handle a constructor acquires: an input format
\* context, an output format context, the I/O handle of an output file, a
\* bitstream filter context.
HandleKinds == {"ictx", "octx", "oio", "bsf"}

NoHandles == [k \in HandleKinds |-> 0]

Handles(ictx, octx, oio, bsf) ==
    [k \in HandleKinds |->
        CASE k = "ictx" -> ictx [] k = "octx" -> octx
          [] k = "oio" -> oio [] OTHER -> bsf]

AddHandles(a, b) == [k \in HandleKinds |-> a[k] + b[k]]

\* What a constructor call did: res "ok" | "err", the handles it acquired,
\* those it released before returning, and those the value returned owns.
Built(res, acq, rel, own) == [res |-> res, acq |-> acq, rel |-> rel, own |-> own]

\* AVFormatContextOwned::with_input.  openOk: avformat_open_input succeeds
\* (on failure it frees the context itself); infoOk:
\* avformat_find_stream_info succeeds.
with_input(openOk, infoOk) ==
    IF ~openOk THEN Built("err", NoHandles, NoHandles, NoHandles)
    ELSE IF ~infoOk
    THEN Built("err", Handles(1, 0, 0, 0), NoHandles, NoHandles)
    ELSE Built("ok", Handles(1, 0, 0, 0), NoHandles, Handles(1, 0, 0, 0))

\* AVFormatContextOwned::with_output.  allocOk:
\* avformat_alloc_output_context2 succeeds; nofile: the format has
\* AVFMT_NOFILE; avioOk: avio_open succeeds.
with_output(allocOk, nofile, avioOk) ==
    IF ~allocOk THEN Built("err", NoHandles, NoHandles, NoHandles)
    ELSE IF nofile
    THEN Built("ok", Handles(0, 1, 0, 0), NoHandles, Handles(0, 1, 0, 0))
    ELSE IF ~avioOk
    THEN Built("err", Handles(0, 1, 0, 0), Handles(0, 1, 0, 0), NoHandles)
    ELSE Built("ok", Handles(0, 1, 1, 0), NoHandles, Handles(0, 1, 1, 0))

\* Drop for AVFormatContextOwned and Drop for AVBSFContextOwned, over the
\* handles a value owns: each is released once.
drop(own) == own

\* SimpleWriter::new, for the handles: with_output(..)?, then new_stream(..)?
\* for the video descriptors; streamsOk: every new_stream succeeds.  On Err
\* the local ctx is dropped.
SimpleWriter_new_handles(allocOk, nofile, avioOk, streamsOk) ==
    LET c == with_output(allocOk, nofile, avioOk)
    IN  IF c.res = "err" THEN c
        ELSE IF ~streamsOk
        THEN Built("err", c.acq, AddHandles(c.rel, drop(c.own)), NoHandles)
        ELSE c

\* SimpleReader::open, for the handles: with_input(..)?, then for each of
\* the n streams AVBSFContextOwned::new(..)? and bsf.prepare(..)?.
\* failAt: the stream whose filter fails (0: none); inPrepare: it fails in
\* prepare, the filter context allocated, else in new, nothing allocated.
\* On Err the local ctx, bsf and bsfs are dropped.
SimpleReader_open(openOk, infoOk, n, failAt, inPrepare) ==
    LET c == with_input(openOk, infoOk)
        made == IF failAt = 0 THEN n
                ELSE IF inPrepare THEN failAt ELSE failAt - 1
        acq == AddHandles(c.acq, Handles(0, 0, 0, made))
    IN  IF c.res = "err" THEN c
        ELSE IF failAt > 0
        THEN Built("err", acq,
                   AddHandles(c.rel, drop(AddHandles(c.own,
                                                     Handles(0, 0, 0, made)))),
                   NoHandles)
        ELSE Built("ok", acq, c.rel,
                   AddHandles(c.own, Handles(0, 0, 0, made)))

\* No handle in the account.
HandleIdle ==
    /\ h_acquired = NoHandles
    /\ h_released = NoHandles
    /\ h_owned = NoHandles
    /\ h_last = <<"none", "ok">>
    /\ h_calls = 0

\* ------------------------------------------------------------- OpenOptions
\* OpenOptions::new: Default::default(), every option None.
OpenOptions_new ==
    [format_location |-> None, max_files |-> None, max_size_bytes |-> None,
     max_size_time |-> None]

\* OpenOptions::open: a SplitWriter if format_location or max_files is set
\* (SplitWriter::new always returns Ok), else a SimpleWriter, or the Err of
\* SimpleWriter::new.  newOk: SimpleWriter::new succeeds.
OpenOptions_open(o, newOk) ==
    IF o.format_location # None \/ o.max_files # None
    THEN "split"
    ELSE IF newOk THEN "simple" ELSE "err"

\* No OpenOptions builder.
OpenIdle ==
    /\ oo_options = OpenOptions_new
    /\ oo_writer = "none"

\* No stand-alone SimpleWriter in Spec.
SimpleIdle ==
    /\ sw_descs = <<>>
    /\ sw = SimpleWriter_new(0, <<>>)
    /\ sw_dropped = TRUE
    /\ sw_calls = 0
    /\ sw_ok = 0
    /\ sw_last = <<"none", "ok", -1, -1>>
    /\ sw_time_bases = <<>>
    /\ sw_pkt = NoPkt

\* SplitWriter::new, over the options offered.
SplitInit ==
    /\ medias \in SplitMediaLists
    /\ \E cb \in CallbackChoices :
          before_split = cb[1] /\ after_split = cb[2]
    /\ max_files \in 0..MaxFiles
    /\ max_size_bytes \in {0, SizeLimit}
    /\ max_size_time \in {0, TimeLimit}
    /\ max_overhead \in OverheadChoices
    /\ split_at_keyframe \in BOOLEAN
    /\ start_index = StartIndex
    /\ current_index = start_index
    /\ elapsed = 0
    /\ started = FALSE
    /\ need_key_frame = NeedKeyFrame(medias)
    /\ split_wait_for_key_frame = FALSE
    /\ writer = None
    /\ disk = {}
    /\ open_ctx = {}
    /\ panicked = FALSE
    /\ last = NoCall
    /\ rotations = 0
    /\ deleted = 0
    /\ opened = <<>>
    /\ open_failed = FALSE

Init == SplitInit /\ SimpleIdle /\ ReaderIdle /\ HandleIdle /\ OpenIdle

Next ==
    \/ \E is_key_frame \in BOOLEAN, stream_index \in 0..MaxDescs,
          n \in 1..MaxPkt, openR \in OpenOutcomes,
          hdrOk \in BOOLEAN, wrOk \in BOOLEAN :
            WriteBytes(is_key_frame, stream_index, n, openR, hdrOk, wrOk)
    \/ Tick

Spec == Init /\ [][Next]_vars

\* ------------------------------------- a caller whose calls all succeed
\* A write_bytes call that returns Ok: the fragment open, the header write
\* and the packet write succeed, and the file grows by n >= 1.
LiveWrite(is_key_frame, stream_index, n) ==
    /\ WriteBytes(is_key_frame, stream_index, n, "ok", TRUE, TRUE)
    /\ last'.res = "ok"

\* SplitWriter::new with the size threshold set, the time threshold off and
\* a descriptor list that gives the writer a stream, so that a call can
\* succeed.
LiveInit ==
    /\ Init
    /\ max_size_bytes > 0
    /\ max_size_time = 0
    /\ StreamsOf(medias, 1) # <<>>

LiveNext ==
    \E is_key_frame \in BOOLEAN, stream_index \in 0..MaxDescs, n \in 1..MaxPkt :
        LiveWrite(is_key_frame, stream_index, n)

\* The caller goes on calling write_bytes for as long as a call can succeed.
LiveSpec == LiveInit /\ [][LiveNext]_vars /\ WF_vars(LiveNext)

\* ------------------------------------------- the stand-alone SimpleWriter
\* SimpleWriter::write_bytes called by the owner of the writer.
SW_WriteBytes(pts, duration, stream_index, n, hdrOk, wrOk) ==
    /\ ~sw_dropped
    /\ sw_last[2] # "panic"
    /\ sw_calls < MaxCalls
    /\ stream_index \in 0..Len(sw_descs)
    /\ \E r \in {SimpleWriter_write_bytes(sw, stream_index, n, hdrOk, wrOk)} :
        \* an input the call does not consult takes one value
        /\ sw.header_writed => hdrOk
        /\ ~(stream_index < Len(sw.streams) /\ hdrOk) => (wrOk /\ n = 1)
        /\ ~wrOk => n = 1
        /\ sw' = r.w
        /\ sw_ok' = IF r.res = "ok" THEN sw_ok + 1 ELSE sw_ok
        /\ sw_last' = <<"write_bytes", r.res, stream_index,
                         IF r.res = "ok" THEN sw.streams[stream_index + 1]
                         ELSE -1>>
        /\ sw_pkt' = IF (sw.header_writed \/ hdrOk)
                         /\ stream_index < Len(sw.streams)
                      THEN Packet(pts, duration, stream_index,
                                  sw_time_bases[stream_index + 1])
                      ELSE NoPkt
    /\ sw_calls' = sw_calls + 1
    /\ UNCHANGED <<sw_descs, sw_dropped, sw_time_bases>>
    /\ UNCHANGED nonSimpleVars

\* SimpleWriter::write_trailer called by the owner.
SW_WriteTrailer ==
    /\ ~sw_dropped
    /\ sw_last[2] # "panic"
    /\ sw' = SimpleWriter_write_trailer(sw)
    /\ sw_last' = <<"write_trailer", "ok", -1, -1>>
    /\ UNCHANGED <<sw_descs, sw_dropped, sw_calls, sw_ok, sw_time_bases,
                   sw_pkt>>
    /\ UNCHANGED nonSimpleVars

\* SimpleWriter::close called by the owner.
SW_Close ==
    /\ ~sw_dropped
    /\ sw_last[2] # "panic"
    /\ sw' = SimpleWriter_close(sw)
    /\ sw_last' = <<"close", "ok", -1, -1>>
    /\ UNCHANGED <<sw_descs, sw_dropped, sw_calls, sw_ok, sw_time_bases,
                   sw_pkt>>
    /\ UNCHANGED nonSimpleVars

\* The writer goes out of scope, also while a panic unwinds.
SW_Drop ==
    /\ ~sw_dropped
    /\ sw' = SimpleWriter_drop(sw)
    /\ sw_dropped' = TRUE
    /\ sw_last' = <<"drop", sw_last[2], -1, -1>>
    /\ UNCHANGED <<sw_descs, sw_calls, sw_ok, sw_time_bases, sw_pkt>>
    /\ UNCHANGED nonSimpleVars

\* No SplitWriter in SimpleSpec.
SplitIdle ==
    /\ medias = <<"video">>
    /\ before_split = FALSE
    /\ after_split = FALSE
    /\ max_files = 0
    /\ max_size_bytes = 0
    /\ max_size_time = 0
    /\ max_overhead = 0
    /\ split_at_keyframe = FALSE
    /\ start_index = 0
    /\ current_index = 0
    /\ elapsed = 0
    /\ started = FALSE
    /\ need_key_frame = FALSE
    /\ split_wait_for_key_frame = FALSE
    /\ writer = None
    /\ disk = {}
    /\ open_ctx = {}
    /\ panicked = FALSE
    /\ last = NoCall
    /\ rotations = 0
    /\ deleted = 0
    /\ opened = <<>>
    /\ open_failed = FALSE

\* SimpleWriter::new has succeeded on some descriptor list.
SimpleInit ==
    /\ sw_descs \in MediaLists
    /\ sw = SimpleWriter_new(0, sw_descs)
    /\ sw_dropped = FALSE
    /\ sw_calls = 0
    /\ sw_ok = 0
    /\ sw_last = <<"new", "ok", -1, -1>>
    /\ sw_time_bases = [i \in 1..Len(sw.streams) |-> <<<<1, 1>>, <<1, 1>>>>]
    /\ sw_pkt = NoPkt
    /\ SplitIdle
    /\ ReaderIdle
    /\ HandleIdle
    /\ OpenIdle

SimpleNext ==
    \/ \E stream_index \in 0..MaxDescs, n \in 1..MaxPkt,
          hdrOk \in BOOLEAN, wrOk \in BOOLEAN :
            SW_WriteBytes(0, 0, stream_index, n, hdrOk, wrOk)
    \/ SW_WriteTrailer
    \/ SW_Close
    \/ SW_Drop

SimpleSpec == SimpleInit /\ [][SimpleNext]_vars

\* ------------------------------------------ the timestamps of the packets
\* SimpleWriter::new has succeeded on two video descriptors, each with its
\* own time base; the muxer gives each stream a time base.
RescaleInit ==
    /\ sw_descs = <<"video", "video">>
    /\ sw = SimpleWriter_new(0, sw_descs)
    /\ sw_dropped = FALSE
    /\ sw_calls = 0
    /\ sw_ok = 0
    /\ sw_last = <<"new", "ok", -1, -1>>
    /\ sw_time_bases \in [1..Len(sw.streams) ->
                            TimeBaseChoices \X TimeBaseChoices]
    /\ sw_pkt = NoPkt
    /\ SplitIdle
    /\ ReaderIdle
    /\ HandleIdle
    /\ OpenIdle

\* write_bytes with any pts and duration; the first call writes the header.
RescaleNext ==
    \E pts \in Timestamps, duration \in Timestamps,
       stream_index \in 0..(Len(sw.streams) - 1) :
        /\ sw_calls < 1
        /\ SW_WriteBytes(pts, duration, stream_index, 1, TRUE, TRUE)

RescaleSpec == RescaleInit /\ [][RescaleNext]_vars

\* ------------------------------------------------- the SimpleReader in use
\* SimpleReader::read_frame called by the owner of the reader, directly or
\* through FrameIter::next.
ReadFrame ==
    /\ rd_last.res # "panic"
    /\ \E o \in SimpleReader_read_frame(rd_left, rd_pending, FALSE, FALSE) :
        /\ rd_left' = o.left
        /\ rd_pending' = o.pend
        /\ rd_returned' = IF o.res = "some" THEN rd_returned + 1
                          ELSE rd_returned
        /\ rd_last' = [res |-> o.res, cause |-> o.cause, stream |-> o.stream,
                       seen |-> o.seen, after |-> o.after, held |-> o.held,
                       prev |-> rd_last.res]
    /\ UNCHANGED rd_streams
    /\ UNCHANGED nonReaderVars

\* SimpleReader::open has succeeded on a source of rd_streams streams that
\* holds rd_left packets: one filter per stream, all empty.
ReaderInit ==
    /\ rd_streams \in 1..MaxStreams
    /\ rd_left \in 0..MaxSrc
    /\ rd_pending = [k \in 1..rd_streams |-> FALSE]
    /\ rd_returned = 0
    /\ rd_last = NoRead
    /\ SplitIdle
    /\ SimpleIdle
    /\ HandleIdle
    /\ OpenIdle

ReaderNext == ReadFrame

ReaderSpec == ReaderInit /\ [][ReaderNext]_vars

\* The iteration over a reader (FrameIter, or a loop on read_frame): the
\* caller calls again after every call that has returned.
IterSpec == ReaderInit /\ [][ReaderNext]_vars /\ WF_vars(ReadFrame)

\* ------------------------------------------- constructors and their drops
\* A constructor is called while the caller owns no wrapper; b is what the
\* call did.
Construct(op, b) ==
    /\ h_owned = NoHandles
    /\ h_calls < MaxCtor
    /\ h_acquired' = AddHandles(h_acquired, b.acq)
    /\ h_released' = AddHandles(h_released, b.rel)
    /\ h_owned' = b.own
    /\ h_last' = <<op, b.res>>
    /\ h_calls' = h_calls + 1
    /\ UNCHANGED nonHandleVars

WithInput ==
    \E openOk \in BOOLEAN, infoOk \in BOOLEAN :
        /\ ~openOk => infoOk
        /\ Construct("with_input", with_input(openOk, infoOk))

WithOutput ==
    \E allocOk \in BOOLEAN, nofile \in BOOLEAN, avioOk \in BOOLEAN :
        /\ (~allocOk \/ nofile) => avioOk
        /\ ~allocOk => nofile
        /\ Construct("with_output", with_output(allocOk, nofile, avioOk))

SimpleWriterNew ==
    \E allocOk \in BOOLEAN, nofile \in BOOLEAN, avioOk \in BOOLEAN,
       streamsOk \in BOOLEAN :
        /\ (~allocOk \/ nofile) => avioOk
        /\ ~allocOk => nofile
        /\ ~(allocOk /\ avioOk) => streamsOk
        /\ Construct("SimpleWriter::new",
                     SimpleWriter_new_handles(allocOk, nofile, avioOk,
                                              streamsOk))

SimpleReaderOpen ==
    \E openOk \in BOOLEAN, infoOk \in BOOLEAN, n \in 1..MaxStreams,
       failAt \in 0..MaxStreams, inPrepare \in BOOLEAN :
        /\ failAt <= n
        /\ ~openOk => infoOk
        /\ ~(openOk /\ infoOk) => (n = 1 /\ failAt = 0)
        /\ failAt = 0 => inPrepare
        /\ Construct("SimpleReader::open",
                     SimpleReader_open(openOk, infoOk, n, failAt, inPrepare))

\* The wrapper the caller owns goes out of scope.
DropOwned ==
    /\ h_owned # NoHandles
    /\ h_released' = AddHandles(h_released, drop(h_owned))
    /\ h_owned' = NoHandles
    /\ h_last' = <<"drop", "ok">>
    /\ UNCHANGED <<h_acquired, h_calls>>
    /\ UNCHANGED nonHandleVars

HandleInit ==
    HandleIdle /\ SplitIdle /\ SimpleIdle /\ ReaderIdle /\ OpenIdle

HandleNext ==
    \/ WithInput
    \/ WithOutput
    \/ SimpleWriterNew
    \/ SimpleReaderOpen
    \/ DropOwned

HandleSpec == HandleInit /\ [][HandleNext]_vars

\* ------------------------------------------------ the OpenOptions builder
\* One builder call: the option is set (again) on a builder not yet opened.
SetOption(o) ==
    /\ oo_writer = "none"
    /\ oo_options' = o
    /\ UNCHANGED oo_writer
    /\ UNCHANGED nonOpenVars

OO_format_location ==
    SetOption([oo_options EXCEPT !.format_location = Some(TRUE)])

OO_max_files ==
    \E n \in 0..MaxFiles : SetOption([oo_options EXCEPT !.max_files = Some(n)])

OO_max_size_bytes ==
    \E n \in {0, SizeLimit} :
        SetOption([oo_options EXCEPT !.max_size_bytes = Some(n)])

OO_max_size_time ==
    \E n \in {0, TimeLimit} :
        SetOption([oo_options EXCEPT !.max_size_time = Some(n)])

\* OpenOptions::open, which consumes the builder.
OO_open ==
    /\ oo_writer = "none"
    /\ \E newOk \in BOOLEAN : oo_writer' = OpenOptions_open(oo_options, newOk)
    /\ UNCHANGED oo_options
    /\ UNCHANGED nonOpenVars

OpenInit == OpenIdle /\ SplitIdle /\ SimpleIdle /\ ReaderIdle /\ HandleIdle

OpenNext ==
    \/ OO_format_location
    \/ OO_max_files
    \/ OO_max_size_bytes
    \/ OO_max_size_time
    \/ OO_open

OpenSpec == OpenInit /\ [][OpenNext]_vars

\* ----------------------------------------------------------------- claims
\* Helpers of the claims' formulas.
Max(a, b) == IF a >= b THEN a ELSE b

\* The place of a step in a rotation, and of the open and the write after it.
Rank(e) ==
    CASE e[1] = "before_split" -> 1
      [] e[1] = "finalize" -> 2
      [] e[1] = "remove_file" -> 3
      [] e[1] = "index" -> 4
      [] e[1] = "after_split" -> 5
      [] e[1] = "open" -> 6
      [] OTHER -> 7

EventsOf(kind) == SelectSeq(last.events, LAMBDA e : e[1] = kind)

RotationEvents == SelectSeq(last.events, LAMBDA e : Rank(e) <= 5)

\* The last call was a write_bytes call that returned (Ok or Err).
Returned == last.op = "write_bytes" /\ last.res # "panic"

\* The packet of the last call was a keyframe of a keyframe-bearing stream.
KeyframeCall(c) ==
    /\ c.is_key_frame
    /\ c.stream_index < Len(medias)
    /\ has_gop(medias[c.stream_index + 1])

\* C1: a write_bytes call made while the live fragment's size or age has
\* reached its limit plus the overhead margin rotates during that call,
\* armed or not, keyframe or not, whatever the stream: every such call
\* that returns has completed a rotation.
C1_OverflowRotates == (Returned /\ last.overflow) => last.split

\* C1 witness: an armed call with a packet that is no keyframe found the
\* fragment over the overflow limit and rotated.
C1_Witness ==
    /\ Returned
    /\ last.overflow
    /\ last.armed
    /\ ~last.is_key_frame
    /\ last.split

\* C2: with split_at_keyframe on and a keyframe-bearing descriptor, once a
\* write_bytes call has found the live fragment at or over a threshold
\* (and has not rotated), the next write_bytes call that carries a keyframe
\* of a keyframe-bearing stream and returns has rotated.
C2_NextKeyframeRotates ==
    [][(/\ split_at_keyframe
        /\ need_key_frame
        /\ Returned
        /\ last.overrun
        /\ ~last.split
        /\ last' # last
        /\ last'.op = "write_bytes"
        /\ last'.res # "panic"
        /\ KeyframeCall(last'))
       => last'.split]_vars

\* C3: once a write_bytes call has succeeded on a SimpleWriter, the engine
\* has written the header exactly once and the trailer at most once, and
\* exactly once when the writer has been dropped, whatever calls were made.
C3_HeaderTrailerOnce ==
    sw_ok >= 1 =>
        /\ sw.hdr = 1
        /\ sw.trl <= 1
        /\ sw_dropped => sw.trl = 1

\* C3 witness: a writer dropped after several successful writes, one of
\* them made after a close.
C3_Witness == sw_dropped /\ sw_ok >= 2 /\ sw.late /\ sw.hdr = 1 /\ sw.trl = 1

\* C4: a SimpleWriter closed or dropped without any write_bytes call has
\* had its header and its trailer written, each once, without a panic.
C4_EmptyFileFinalized ==
    (sw_calls = 0 /\ sw_last[1] \in {"close", "drop"}) =>
        /\ sw.hdr = 1
        /\ sw.trl = 1
        /\ sw_last[2] # "panic"

\* C5: with max_files = F > 0 the fragment files created and not yet
\* deleted are never more than F.
C5_RetentionBound == max_files > 0 => Cardinality(disk) <= max_files

\* C5 witness: F files on disk after a deletion has made room.
C5_Witness ==
    /\ max_files = 2
    /\ Cardinality(disk) = max_files
    /\ deleted >= 1

\* C6: with max_files = F > 0, after N rotations exactly max(0, N - F + 1)
\* files have been deleted, and every deletion removes the lowest index
\* on disk.
C6_DeletedCount ==
    [][max_files > 0 =>
        /\ deleted' = Max(0, rotations' - max_files + 1)
        /\ \A j \in disk \ disk' : \A i \in disk : j <= i]_vars

\* C6 witness: two rotations with F = 2, one file deleted and the two
\* newest kept.
C6_Witness ==
    /\ max_files = 2
    /\ rotations = 2
    /\ deleted = 1
    /\ disk = {start_index + 1, start_index + 2}

\* C7: with the size threshold alone, keyframe-aligned splitting, one video
\* descriptor and no failed open, the fragments are opened at start_index,
\* start_index + 1, ... in that order, none skipped, none opened twice.
C7_IndicesInOrder ==
    (/\ max_size_bytes > 0
     /\ max_size_time = 0
     /\ split_at_keyframe
     /\ medias = <<"video">>
     /\ ~open_failed)
    => \A k \in 1..Len(opened) : opened[k] = start_index + k - 1

\* C7 witness: three fragments opened under that configuration, the last
\* two after a rotation at a keyframe.
C7_Witness ==
    /\ max_size_bytes > 0
    /\ max_size_time = 0
    /\ split_at_keyframe
    /\ medias = <<"video">>
    /\ ~open_failed
    /\ Len(opened) = 3
    /\ last.split
    /\ last.armed
    /\ ~last.overflow

\* C8: with both thresholds 0 nothing ever rotates: the index stays at
\* start_index, the armed flag is never set, no split callback is invoked
\* and no file is deleted.
C8_DisabledNeverRotates ==
    (max_size_bytes = 0 /\ max_size_time = 0) =>
        /\ current_index = start_index
        /\ ~split_wait_for_key_frame
        /\ rotations = 0
        /\ deleted = 0
        /\ RotationEvents = <<>>

\* C8 witness: a fragment grown to the cap of the model by keyframe
\* packets, thresholds disabled, callbacks configured.
C8_Witness ==
    /\ max_size_bytes = 0
    /\ max_size_time = 0
    /\ before_split
    /\ writer # None
    /\ writer[1].size = MaxSize
    /\ last.is_key_frame
    /\ last.res = "ok"

\* What C9 says of the writers, the trailer aside: at most one engine
\* context is open, it is the live writer's, and a fragment is opened
\* only when none is open.
OneLiveWriter ==
    /\ Cardinality(open_ctx) <= 1
    /\ writer = None <=> open_ctx = {}
    /\ \A k \in 1..Len(last.events) :
          last.events[k][1] = "open" => last.events[k][3] = {}

C10_RotationOrder ==
    /\ \A k \in 1..(Len(last.events) - 1) :
          Rank(last.events[k]) < Rank(last.events[k + 1])
    /\ last.split =>
          /\ EventsOf("before_split") =
                IF before_split THEN << <<"before_split", current_index - 1>> >>
                ELSE <<>>
          /\ EventsOf("after_split") =
                IF after_split THEN << <<"after_split", current_index>> >>
                ELSE <<>>
          /\ EventsOf("index") = << <<"index", current_index>> >>
          /\ \A k \in 1..Len(last.events) :
                last.events[k][1] = "finalize" =>
                    last.events[k][2] = current_index - 1
    /\ (Returned /\ ~last.split) => RotationEvents = <<>>

\* C10 witness: a rotation with all five steps.
C10_Witness ==
    /\ last.split
    /\ Len(RotationEvents) = 5

\* The last call was a write_bytes call whose fragment open failed with an
\* Err: it is the one way a call ends "err" with no writer left.
OpenFailedCall == last.op = "write_bytes" /\ last.res = "err" /\ writer = None

\* C11: after a write_bytes call whose fragment open failed (an Err, no
\* live writer left), the next write_bytes call that returns has not
\* advanced current_index and has invoked no split callback: what it
\* opens, it opens at the index of the failed open.
C11_FailedOpenRetriesSameIndex ==
    [][(/\ OpenFailedCall
        /\ last' # last
        /\ last'.op = "write_bytes"
        /\ last'.res # "panic")
       => /\ current_index' = current_index
          /\ ~last'.split
          /\ \A k \in 1..Len(last'.events) :
                /\ last'.events[k][1] \notin {"before_split", "after_split"}
                /\ last'.events[k][1] = "open" =>
                      last'.events[k][2] = current_index]_vars

\* The last call rotated and its packet was written: it is the first
\* packet of the fragment the call opened.
RotatedAndWrote ==
    /\ last.split
    /\ EventsOf("open") # <<>>
    /\ EventsOf("write") # <<>>

\* C12 as stated: with split_at_keyframe on and a keyframe-bearing
\* descriptor, the first packet written into a fragment opened after a
\* rotation is a keyframe packet.
C12_FragmentStartsWithKeyframe ==
    (split_at_keyframe /\ need_key_frame /\ RotatedAndWrote)
    => last.is_key_frame

\* C12 amended: with split_at_keyframe on and a keyframe-bearing
\* descriptor, a call that closes a live fragment below both overflow
\* limits, rotates and writes its packet into the fragment it opens has
\* written a keyframe packet of a keyframe-bearing stream.
C12_KeyframeCutStartsWithKeyframe ==
    (/\ split_at_keyframe
     /\ need_key_frame
     /\ RotatedAndWrote
     /\ EventsOf("finalize") # <<>>
     /\ ~last.overflow)
    => KeyframeCall(last)

\* C12 witness: a fragment below the overflow limits was closed at a
\* keyframe and the keyframe is the first packet of the next fragment.
C12_Witness ==
    /\ split_at_keyframe
    /\ need_key_frame
    /\ RotatedAndWrote
    /\ EventsOf("finalize") # <<>>
    /\ ~last.overflow
    /\ last.armed
    /\ KeyframeCall(last)
    /\ writer # None
    /\ writer[1].size > 0

\* C13: with max_size_bytes > 0 and every call succeeding and growing the
\* fragment by at least one byte, a rotation always comes, and another
\* after it (up to the MaxRot rotations followed), keyframe or no keyframe.
C13_RotationRecurs ==
    \A k \in 0..(MaxRot - 1) : (rotations = k) ~> (rotations = k + 1)

\* C13 witness: keyframe-aligned splitting on, the packets written to the
\* audio stream so that none is a keyframe of a keyframe-bearing stream,
\* and MaxRot rotations made, the last one by the overflow limit.
C13_Witness ==
    /\ split_at_keyframe
    /\ need_key_frame
    /\ medias = <<"audio", "video">>
    /\ max_size_time = 0
    /\ rotations = MaxRot
    /\ last.res = "ok"
    /\ last.split
    /\ last.overflow
    /\ ~last.is_key_frame

\* C14: an I/O error met while deleting an old fragment or creating a
\* fragment's file or directory comes back to the caller as a failure
\* result, never as a panic: a write_bytes call panics only over a
\* stream_index that is out of range.
C14_IoErrorsReturned ==
    (last.op = "write_bytes" /\ last.res = "panic")
    => last.stream_index >= Len(StreamsOf(medias, 1))

\* C15: SimpleWriter::write_bytes takes stream_index as an index into the
\* descriptor list given to new: an index below the number of descriptors
\* does not panic, and a packet that is written goes to the stream made
\* for the descriptor at that index.
C15_StreamIndexIsDescriptorIndex ==
    sw_last[1] = "write_bytes" =>
        /\ sw_last[3] < Len(sw_descs) => sw_last[2] # "panic"
        /\ sw_last[2] = "ok" => sw_last[4] = sw_last[3]

C18_HandlesReleasedOnce ==
    \A k \in HandleKinds : h_acquired[k] = h_released[k] + h_owned[k]

Abs(x) == IF x < 0 THEN -x ELSE x

\* r is a * b / c rounded to the nearest integer, a half away from zero.
Nearest(r, a, b, c) ==
    /\ 2 * Abs(r * c - a * b) <= c
    /\ 2 * Abs(r * c - a * b) = c => Abs(r * c) > Abs(a * b)

\* a * b / c rounded to nearest fits a timestamp.
Fits(a, b, c) == \E r \in Timestamps : Nearest(r, a, b, c)

\* r is a rescaled from bq to cq, rounded to nearest, a sentinel passed
\* through unchanged.
RescaledPassing(r, a, bq, cq) ==
    IF a \in {IntMin, IntMax} THEN r = a
    ELSE Fits(a, bq[1] * cq[2], cq[1] * bq[2]) =>
            Nearest(r, a, bq[1] * cq[2], cq[1] * bq[2])

\* r is a rescaled from bq to cq, rounded to nearest, the sentinels
\* rescaled like any other value (IntMin as -IntMax).
RescaledPlain(r, a, bq, cq) ==
    LET x == IF a = IntMin THEN -IntMax ELSE a
    IN  Fits(x, bq[1] * cq[2], cq[1] * bq[2]) =>
            Nearest(r, x, bq[1] * cq[2], cq[1] * bq[2])

\* The time bases of the stream the last packet was built for.
PktTimeBases == sw_time_bases[sw_pkt.stream + 1]

C20_ArmedDecision ==
    [][(/\ split_wait_for_key_frame
        /\ ~(is_bytes_overflow \/ is_time_overflow)
        /\ last' # last
        /\ last'.op = "write_bytes"
        /\ last'.res # "panic")
       => /\ last'.split <=> KeyframeCall(last')
          /\ ~split_wait_for_key_frame']_vars

\* C20 witness: an armed call below the overflow limits, with a packet that
\* is no keyframe, has not rotated and has left the writer unarmed.
C20_Witness ==
    /\ Returned
    /\ last.armed
    /\ last.overrun
    /\ ~last.overflow
    /\ ~KeyframeCall(last)
    /\ ~last.split
    /\ ~split_wait_for_key_frame

\* C21: a write_bytes call made while the writer is not armed and neither
\* overflow condition holds, and that returns: if the size or time
\* threshold is reached, split_at_keyframe is on and some descriptor is
\* keyframe-bearing, it has set the armed flag and has not rotated,
\* whatever its packet; otherwise it has rotated if and only if the size or
\* time threshold is reached, and the armed flag is clear.
C21_UnarmedDecision ==
    [][(/\ ~split_wait_for_key_frame
        /\ ~(is_bytes_overflow \/ is_time_overflow)
        /\ last' # last
        /\ last'.op = "write_bytes"
        /\ last'.res # "panic")
       => IF /\ is_bytes_overrun \/ is_time_overrun
             /\ split_at_keyframe
             /\ NeedKeyFrame(medias)
          THEN split_wait_for_key_frame' /\ ~last'.split
          ELSE /\ last'.split <=> (is_bytes_overrun \/ is_time_overrun)
               /\ ~split_wait_for_key_frame']_vars

\* C21 witness: an unarmed call at a threshold, below the overflow limits,
\* whose packet is a keyframe of a keyframe-bearing stream, has armed the
\* writer and has not rotated.
C21_Witness ==
    /\ Returned
    /\ ~last.armed
    /\ last.overrun
    /\ ~last.overflow
    /\ KeyframeCall(last)
    /\ ~last.split
    /\ split_wait_for_key_frame

\* C22: with the size threshold alone (max_size_bytes > 0, max_size_time =
\* 0), a write_bytes call that completes a rotation was made while the live
\* fragment's size was at least max_size_bytes: no fragment below the
\* threshold is closed by a rotation.
C22_SizeRotationAtThreshold ==
    (/\ max_size_bytes > 0
     /\ max_size_time = 0
     /\ last.op = "write_bytes"
     /\ last.split)
    => last.overrun

\* C23: the armed flag is never set while no writer is live, and it is
\* clear after every write_bytes call that has completed a rotation: a
\* fragment just opened is not armed.
C23_ArmedOnlyWhileActive ==
    /\ split_wait_for_key_frame => writer # None
    /\ (last.op = "write_bytes" /\ last.split) => ~split_wait_for_key_frame

\* The position of the first event of a kind in the last call, 0 if none.
FirstPos(kind) ==
    IF \E i \in 1..Len(last.events) : last.events[i][1] = kind
    THEN CHOOSE i \in 1..Len(last.events) :
            /\ last.events[i][1] = kind
            /\ \A j \in 1..(i - 1) : last.events[j][1] # kind
    ELSE 0

\* C24: a write_bytes call that returns Ok has submitted its packet once,
\* to the writer live when the call ends; if the call rotated, that writer
\* was opened by the call after the rotation, so the packet is the first
\* of the new fragment, and it was not written to a fragment the call
\* closed.
C24_PacketToLiveWriterOnce ==
    (Returned /\ last.res = "ok") =>
        /\ Len(EventsOf("write")) = 1
        /\ writer # None
        /\ EventsOf("write")[1][2] = writer[1].index
        /\ \A i \in 1..Len(EventsOf("finalize")) :
               EventsOf("finalize")[i][2] # EventsOf("write")[1][2]
        /\ last.split =>
               /\ Len(EventsOf("open")) = 1
               /\ EventsOf("open")[1][2] = EventsOf("write")[1][2]
               /\ FirstPos("index") < FirstPos("open")
               /\ FirstPos("open") < FirstPos("write")

\* C24 witness: a call has closed a fragment, opened the next one and
\* written its packet there.
C24_Witness ==
    /\ Returned
    /\ last.res = "ok"
    /\ last.split
    /\ EventsOf("finalize") # <<>>
    /\ writer # None
    /\ writer[1].size > 0
    /\ writer[1].index = current_index

\* C25: a read_frame call during which a normalizer has failed with a
\* reason, in receive or in submit, returns None, and has taken no packet
\* from the source after the failure.
C25_NormalizerFailureEndsCall ==
    (rd_last.res \in {"some", "none"} /\ rd_last.seen) =>
        /\ rd_last.res = "none"
        /\ ~rd_last.after

\* C26: a SplitWriter does not rotate while it has no live writer: every
\* call that starts a rotation finalizes a fragment, the first fragment
\* ever opened has index start_index, and no rotation stops in clean_files
\* over a file that was never created (a rotation begun whose index never
\* moved).
C26_RotationClosesAFragment ==
    /\ (last.op = "write_bytes" /\ RotationEvents # <<>>) =>
           EventsOf("finalize") # <<>>
    /\ opened # <<>> => opened[1] = start_index
    /\ ~(EventsOf("before_split") # <<>> /\ EventsOf("index") = <<>>)

\* C27: when a write_bytes call of the SplitWriter has written its packet,
\* the descriptor stream_has_key_frame consults for it, medias[stream_index],
\* is the descriptor the stream that took the packet was created from.
C27_ConsultedDescriptorIsStreams ==
    (last.op = "write_bytes" /\ last.res = "ok") =>
        /\ writer # None
        /\ last.stream_index < Len(writer[1].streams)
        /\ writer[1].streams[last.stream_index + 1] = last.stream_index

\* C28: no packet is handed to the engine after the trailer of a
\* SimpleWriter has been written: a write_bytes call that follows
\* write_trailer or close does not reach the engine's packet write.
C28_NoPacketAfterTrailer == ~sw.late

\* The options ask for rotation at a size or time threshold.
AsksRotation ==
    \/ oo_options.max_size_bytes # None /\ oo_options.max_size_bytes[1] > 0
    \/ oo_options.max_size_time # None /\ oo_options.max_size_time[1] > 0

\* C29: when open has returned a writer for options that set a positive
\* max_size_bytes or max_size_time, the writer is a SplitWriter, with or
\* without max_files and format_location.
C29_ThresholdGivesSplitWriter ==
    (oo_writer \in {"simple", "split"} /\ AsksRotation) => oo_writer = "split"

\* The packets still to come: those the source holds and those held by the
\* normalizers.
Backlog ==
    rd_left + Cardinality({k \in 1..Len(rd_pending) : rd_pending[k]})

====
